---- MODULE Spec2Model ----
(***************************************************************************)
(* Model of the block downloader (src/main.go): the date-to-block          *)
(* resolver (binarySearchF, findBlockByDate), the blob-splitting writer    *)
(* (newWriterWithCounter, Write, Written) and the harvest driver (main).   *)
(*                                                                         *)
(* The specifications share the module's variables:                        *)
(*   SearchSpec  binarySearchF run one loop iteration at a time on any     *)
(*               lower <= upper and any predicate;                         *)
(*   SinkSpec    a writer receiving any sequence of Write calls;           *)
(*   Spec        a whole run of main (LiveSpec adds the fairness of a      *)
(*               sequential program that keeps executing), on a chain that *)
(*               stays as it is during the run;                            *)
(*   ResolveSpec the two date resolutions of main on a chain whose head    *)
(*               may grow between them;                                    *)
(*   ReporterSpec progressReporter.update called at any times with any     *)
(*               numerators (Spec leaves the reporter's clock out).        *)
(***************************************************************************)
EXTENDS Integers, Sequences, FiniteSets, TLC

VARIABLES
    \* ---- binarySearchF (SearchSpec)
    searchPc,      \* "idle" | "loop" | "returned"
    lower, upper,  \* the loop's two parameters/variables
    increasingF,   \* the predicate, a function height -> {-1, 0, 1}
    lower0, upper0,\* the arguments the search was called with
    result,        \* the returned value
    probes,        \* the heights the predicate was called at
    \* ---- the writer and the file system under it
    out,           \* the *writer: [file, n, blobW0, blobI, blobSize]
    os,            \* [files: name index -> content, opens, closes]
    calls,         \* Write calls made so far (each a record of the call)
    \* ---- main
    pc,            \* position of main
    chain,         \* timestamps of blocks 0..head (chain[h+1] is block h)
    flags,         \* the parsed command line
    startNum, endNum,
    maxSize,
    i,             \* loop variable of the sequential loop
    pending,       \* the Write calls the encoder has still to make for the block
    fetched,       \* heights passed to writeBlock, in order
    reporter,      \* [n, pct]
    fatal,         \* "" or the panic that ended the run
    \* ---- progressReporter under a clock (ReporterSpec)
    clock,         \* time.Now().Unix()
    log            \* the update calls made: [t, pct, printed]

searchVars == <<searchPc, lower, upper, increasingF, lower0, upper0, result, probes>>
sinkVars   == <<out, os, calls>>
mainVars   == <<pc, chain, flags, startNum, endNum, maxSize, i, pending, fetched,
                reporter, fatal>>
timeVars   == <<clock, log>>
vars       == <<searchVars, sinkVars, mainVars, timeVars>>

\* ------------------------------------------------------------------ bounds
MaxHeight == 3     \* SearchSpec: heights are 0..MaxHeight
MaxBlobSize == 3   \* blobsize flag values are 0..MaxBlobSize
MaxWriteLen == 2   \* a Write call carries 0..MaxWriteLen bytes
MaxCalls == 4      \* SinkSpec: Write calls per run
MaxHead == 3       \* Spec: the chain head is 0..MaxHead
MaxBlockLen == 2   \* Spec: a block encodes to 1..MaxBlockLen bytes
MB == 2            \* Spec: the bytes of one unit of the max flag (scaled down)
MaxGrownHead == 6  \* ResolveSpec: the chain head is 0..MaxGrownHead
MaxDenominator == 2 \* ReporterSpec: reporter.n is 1..MaxDenominator
MaxUpdates == 3    \* ReporterSpec: update calls per run

\* ------------------------------------------------------------ binarySearchF
Signs == {-1, 0, 1}

\* cmp.Compare
Compare(a, b) == IF a < b THEN -1 ELSE IF a > b THEN 1 ELSE 0

Mid(lo, up) == (lo + up) \div 2

\* LoopBody with the upper bound set to mid - 1 instead of mid
LoopBodyUpperBelowMid(lo, up, v) ==
    IF v < 0 THEN [lower |-> Mid(lo, up) + 1, upper |-> up, returns |-> FALSE]
    ELSE IF v > 0 THEN [lower |-> lo, upper |-> Mid(lo, up) - 1, returns |-> FALSE]
    ELSE [lower |-> Mid(lo, up), upper |-> up, returns |-> TRUE]

\* LoopBody with the lower bound set to mid instead of mid + 1
LoopBodyLowerAtMid(lo, up, v) ==
    IF v < 0 THEN [lower |-> Mid(lo, up), upper |-> up, returns |-> FALSE]
    ELSE IF v > 0 THEN [lower |-> lo, upper |-> Mid(lo, up), returns |-> FALSE]
    ELSE [lower |-> Mid(lo, up), upper |-> up, returns |-> TRUE]

\* One iteration of the loop of binarySearchF, given v = increasingF(mid):
\* the new bounds, or returns with the value in .lower
LoopBody(lo, up, v) ==
    IF v < 0 THEN [lower |-> Mid(lo, up) + 1, upper |-> up, returns |-> FALSE]
    ELSE IF v > 0 THEN [lower |-> lo, upper |-> Mid(lo, up), returns |-> FALSE]
    ELSE [lower |-> Mid(lo, up), upper |-> up, returns |-> TRUE]

RECURSIVE binarySearchF(_, _, _)
binarySearchF(lo, up, f) ==
    IF lo < up
    THEN LET r == LoopBody(lo, up, f[Mid(lo, up)])
         IN  IF r.returns THEN r.lower ELSE binarySearchF(r.lower, r.upper, f)
    ELSE lo

NonDecreasing(f) == \A a, b \in DOMAIN f : a <= b => f[a] <= f[b]

\* The smallest h in [lo, up) with f[h] >= 0, else up
Ceiling(lo, up, f) ==
    IF \E h \in lo..(up - 1) : f[h] >= 0
    THEN CHOOSE h \in lo..(up - 1) : f[h] >= 0 /\ \A g \in lo..(h - 1) : f[g] < 0
    ELSE up

Heights == 0..MaxHeight

SearchIdle ==
    /\ searchPc = "idle" /\ lower = 0 /\ upper = 0 /\ lower0 = 0 /\ upper0 = 0
    /\ increasingF = <<>> /\ result = 0 /\ probes = {}

SinkIdle ==
    /\ out = [file |-> 0, n |-> 0, blobW0 |-> 0, blobI |-> 0, blobSize |-> 0]
    /\ os = [files |-> <<>>, opens |-> 0, closes |-> 0]
    /\ calls = <<>>

MainIdle ==
    /\ pc = "idle" /\ chain = <<>> /\ flags = <<>> /\ startNum = 0 /\ endNum = 0
    /\ maxSize = 0 /\ i = 0 /\ pending = <<>> /\ fetched = <<>>
    /\ reporter = [n |-> 0, pct |-> 0] /\ fatal = ""

TimeIdle == clock = 0 /\ log = <<>>

SearchInit ==
    /\ searchPc = "loop"
    /\ lower \in Heights /\ upper \in Heights /\ lower <= upper
    /\ lower0 = lower /\ upper0 = upper
    /\ increasingF \in [Heights -> Signs]
    /\ result = 0 /\ probes = {}
    /\ SinkIdle /\ MainIdle /\ TimeIdle

\* for lower < upper { mid := ...; v := increasingF(mid); if v < 0 .. else if v > 0 .. }
SearchIterate ==
    /\ searchPc = "loop" /\ lower < upper
    /\ LET r == LoopBody(lower, upper, increasingF[Mid(lower, upper)])
       IN  /\ ~r.returns
           /\ lower' = r.lower /\ upper' = r.upper
    /\ probes' = probes \cup {Mid(lower, upper)}
    /\ UNCHANGED <<searchPc, increasingF, lower0, upper0, result, sinkVars, mainVars, timeVars>>

\* ... else { return mid }
SearchReturnMid ==
    /\ searchPc = "loop" /\ lower < upper
    /\ LET r == LoopBody(lower, upper, increasingF[Mid(lower, upper)])
       IN  /\ r.returns
           /\ result' = r.lower
    /\ probes' = probes \cup {Mid(lower, upper)}
    /\ searchPc' = "returned"
    /\ UNCHANGED <<lower, upper, increasingF, lower0, upper0, sinkVars, mainVars, timeVars>>

\* return lower
SearchReturnLower ==
    /\ searchPc = "loop" /\ ~(lower < upper)
    /\ result' = lower
    /\ searchPc' = "returned"
    /\ UNCHANGED <<lower, upper, increasingF, lower0, upper0, probes, sinkVars, mainVars, timeVars>>

SearchNext == SearchIterate \/ SearchReturnMid \/ SearchReturnLower

SearchSpec == SearchInit /\ [][SearchNext]_vars

\* the loop keeps executing until it returns
SearchLiveSpec == SearchSpec /\ WF_vars(SearchNext)

\* ------------------------------------------------------------- the writer
\* os.Create: the file of that name exists and is empty; a handle is opened
Create(o, name) ==
    [o EXCEPT !.files = [j \in (DOMAIN o.files) \cup {name} |->
                            IF j = name THEN <<>> ELSE o.files[j]],
              !.opens = @ + 1]

\* (*os.File).Close
Close(o) == [o EXCEPT !.closes = @ + 1]

\* (*os.File).Write without error: p is appended to the file
FileWrite(o, name, p) == [o EXCEPT !.files[name] = @ \o p]

NoFiles == [files |-> <<>>, opens |-> 0, closes |-> 0]

newWriterWithCounter(o, blobSize) ==
    [w  |-> [file |-> 0, n |-> 0, blobW0 |-> 0, blobI |-> 0, blobSize |-> blobSize],
     os |-> Create(o, 0)]

\* Write that rolls only when the threshold is exceeded (> for >=)
WriteRollsLate(w, o, p) ==
    LET n1 == w.n + Len(p)
        o1 == FileWrite(o, w.file, p)
    IN  IF n1 - w.blobW0 > w.blobSize
        THEN [w  |-> [w EXCEPT !.n = n1, !.blobW0 = n1, !.blobI = w.blobI + 1,
                               !.file = w.blobI + 1],
              os |-> Create(Close(o1), w.blobI + 1)]
        ELSE [w |-> [w EXCEPT !.n = n1], os |-> o1]

\* Write that opens the next file without advancing blobI
WriteKeepsIndex(w, o, p) ==
    LET n1 == w.n + Len(p)
        o1 == FileWrite(o, w.file, p)
    IN  IF n1 - w.blobW0 >= w.blobSize
        THEN [w  |-> [w EXCEPT !.n = n1, !.blobW0 = n1],
              os |-> Create(Close(o1), w.blobI)]
        ELSE [w |-> [w EXCEPT !.n = n1], os |-> o1]

\* Write that opens the next file without closing the current one
WriteLeavesOpen(w, o, p) ==
    LET n1 == w.n + Len(p)
        o1 == FileWrite(o, w.file, p)
    IN  IF n1 - w.blobW0 >= w.blobSize
        THEN [w  |-> [w EXCEPT !.n = n1, !.blobW0 = n1, !.blobI = w.blobI + 1,
                               !.file = w.blobI + 1],
              os |-> Create(o1, w.blobI + 1)]
        ELSE [w |-> [w EXCEPT !.n = n1], os |-> o1]

\* (*writer).Write when the file write succeeds (n = len(p), err = nil)
Write(w, o, p) ==
    LET n1 == w.n + Len(p)
        o1 == FileWrite(o, w.file, p)
    IN  IF n1 - w.blobW0 >= w.blobSize
        THEN [w  |-> [w EXCEPT !.n = n1, !.blobW0 = n1, !.blobI = w.blobI + 1,
                               !.file = w.blobI + 1],
              os |-> Create(Close(o1), w.blobI + 1)]
        ELSE [w |-> [w EXCEPT !.n = n1], os |-> o1]

\* (*writer).Written
Written(w) == w.n

\* The bytes of one Write call: byte k of the call made for `tag`
Bytes(tag, from, len) == [k \in 1..len |-> <<tag, from + k>>]

RECURSIVE SumLen(_)
SumLen(cs) == IF cs = <<>> THEN 0 ELSE cs[1].len + SumLen(Tail(cs))

SinkInit ==
    /\ \E blobSize \in 0..MaxBlobSize :
          LET r == newWriterWithCounter(NoFiles, blobSize)
          IN  out = r.w /\ os = r.os
    /\ calls = <<>>
    /\ SearchIdle /\ MainIdle /\ TimeIdle

\* One successful Write call of any length; calls records its length, the file
\* it went to and whether it closed that file
SinkWrite ==
    /\ Len(calls) < MaxCalls
    /\ \E len \in 0..MaxWriteLen :
          LET r == Write(out, os, Bytes(Len(calls) + 1, 0, len))
          IN  /\ out' = r.w /\ os' = r.os
              /\ calls' = Append(calls, [len |-> len, file |-> out.file,
                                         rolled |-> r.os.closes > os.closes])
    /\ UNCHANGED <<searchVars, mainVars, timeVars>>

SinkNext == SinkWrite

SinkSpec == SinkInit /\ [][SinkNext]_vars

\* ------------------------------------------------------------------- main
\* uint is 64 bits wide; the model wraps at 2^30, far above every value a
\* bounded run produces
UintSize == 2^30
Uint(x) == x % UintSize

TimeStamps == {1, 2}          \* header.Time of the blocks
Instants   == {1, 2, 3}       \* what a date flag may denote

\* A date flag: the instant its string denotes at the run's wall-clock time,
\* or a string parseDate rejects
DateFlags == {[form |-> "date", t |-> t] : t \in Instants} \cup {[form |-> "bad", t |-> 0]}

\* parseDate: the instant, or the panic of assertNoError / the default case
parseDate(date) ==
    IF date.form = "bad" THEN [err |-> TRUE, t |-> 0] ELSE [err |-> FALSE, t |-> date.t]

HeadOf(ch) == Len(ch) - 1

Chains ==
    UNION {{ch \in [1..(h + 1) -> TimeStamps] :
                \A a, b \in 1..(h + 1) : a <= b => ch[a] <= ch[b]} : h \in 0..MaxHead}

\* findBlockByDate against the chain ch
findBlockByDate(ch, date) ==
    binarySearchF(0, HeadOf(ch), [h \in 0..HeadOf(ch) |-> Compare(ch[h + 1], date)])

\* The Write calls the encoder makes for one block: one or two calls that
\* carry 1..MaxBlockLen bytes together
Encodings ==
    {<<a>> : a \in 1..MaxBlockLen}
        \cup {e \in (1..MaxBlockLen) \X (1..MaxBlockLen) : e[1] + e[2] <= MaxBlockLen}

EncLen(e) == IF Len(e) = 1 THEN e[1] ELSE e[1] + e[2]

\* The byte slices of those calls for the block fetched as number `tag`
Slices(tag, e) ==
    IF Len(e) = 1 THEN <<Bytes(tag, 0, e[1])>>
    ELSE <<Bytes(tag, 0, e[1]), Bytes(tag, e[1], e[2])>>

Init ==
    /\ pc = "start"
    /\ chain \in Chains
    /\ flags \in [startDate : DateFlags, endDate : DateFlags,
                  size : 0..1, blobSize : 0..MaxBlobSize]
    /\ startNum = 0 /\ endNum = 0 /\ maxSize = 0 /\ i = 0
    /\ pending = <<>> /\ fetched = <<>>
    /\ reporter = [n |-> 0, pct |-> 0] /\ fatal = ""
    /\ SinkIdle
    /\ SearchIdle /\ TimeIdle

\* panic(err): the run ends
Panic(why) == pc' = "panic" /\ fatal' = why

\* startNum := findBlockByDate(parseDate(*flagStartDate))
ResolveStart ==
    /\ pc = "start"
    /\ LET d == parseDate(flags.startDate)
       IN  IF d.err
           THEN Panic("date") /\ UNCHANGED startNum
           ELSE /\ startNum' = findBlockByDate(chain, d.t)
                /\ pc' = "resolveEnd" /\ UNCHANGED fatal
    /\ UNCHANGED <<chain, flags, endNum, maxSize, i, pending, fetched, reporter,
                   searchVars, sinkVars, timeVars>>

\* ResolveEnd with the output file created before the end date is parsed
ResolveEndCreatesFirst ==
    /\ pc = "resolveEnd"
    /\ os' = Create(os, 0)
    /\ LET d == parseDate(flags.endDate)
       IN  IF d.err
           THEN Panic("date") /\ UNCHANGED endNum
           ELSE /\ endNum' = findBlockByDate(chain, d.t)
                /\ pc' = "create" /\ UNCHANGED fatal
    /\ UNCHANGED <<chain, flags, startNum, maxSize, i, pending, fetched, reporter,
                   searchVars, out, calls, timeVars>>

\* endNum := findBlockByDate(parseDate(*flagEndDate))
ResolveEnd ==
    /\ pc = "resolveEnd"
    /\ LET d == parseDate(flags.endDate)
       IN  IF d.err
           THEN Panic("date") /\ UNCHANGED endNum
           ELSE /\ endNum' = findBlockByDate(chain, d.t)
                /\ pc' = "create" /\ UNCHANGED fatal
    /\ UNCHANGED <<chain, flags, startNum, maxSize, i, pending, fetched, reporter,
                   searchVars, sinkVars, timeVars>>

\* client.HeaderByNumber fails during either resolution
ResolveFails ==
    /\ pc \in {"start", "resolveEnd"}
    /\ parseDate(IF pc = "start" THEN flags.startDate ELSE flags.endDate).err = FALSE
    /\ Panic("rpc")
    /\ UNCHANGED <<chain, flags, startNum, endNum, maxSize, i, pending, fetched,
                   reporter, searchVars, sinkVars, timeVars>>

\* out := newWriterWithCounter(..); maxSize := *flagSize * 1024 * 1024; the
\* branch on maxSize > 0 with reporter.n set in either arm
NewWriter ==
    /\ pc = "create"
    /\ LET r == newWriterWithCounter(os, flags.blobSize)
       IN  out' = r.w /\ os' = r.os
    /\ maxSize' = Uint(flags.size * MB)
    /\ IF maxSize' > 0
       THEN /\ reporter' = [reporter EXCEPT !.n = maxSize']
            /\ pc' = "sample" /\ UNCHANGED i
       ELSE /\ reporter' = [reporter EXCEPT !.n = Uint(endNum - startNum)]
            /\ i' = startNum
            /\ pc' = "seq"
    /\ UNCHANGED <<chain, flags, startNum, endNum, pending, fetched, fatal, calls,
                   searchVars, timeVars>>

\* os.Create fails in newWriterWithCounter
NewWriterFails ==
    /\ pc = "create"
    /\ Panic("io")
    /\ UNCHANGED <<chain, flags, startNum, endNum, maxSize, i, pending, fetched,
                   reporter, searchVars, sinkVars, timeVars>>

\* the sampling loop stops one byte short of maxSize
SampleContinuesShort(w, size) == Written(w) + 1 < size

\* the sampling loop takes one more pass at Written() = maxSize
SampleContinuesLong(w, size) == Written(w) <= size

\* for out.Written() < maxSize
SampleContinues(w, size) == Written(w) < size

\* the sequential loop runs to endNum inclusive
SeqContinuesInclusive(h, end) == h <= end

\* for i := startNum; i < endNum; i++
SeqContinues(h, end) == h < end

\* writeBlock(h): the block is fetched and the encoder starts on it
writeBlock(h) ==
    \E e \in Encodings :
        /\ fetched' = Append(fetched, [h |-> h, len |-> EncLen(e)])
        /\ pending' = Slices(Len(fetched) + 1, e)
        /\ pc' = "encode"

\* One pass of the sampling loop up to the encoder's first Write; rand.Int
\* panics when span <= 0
SampleLoop ==
    /\ pc = "sample"
    /\ IF SampleContinues(out, maxSize)
       THEN LET span == endNum - startNum
            IN  IF span <= 0
                THEN Panic("rand") /\ UNCHANGED <<fetched, pending>>
                ELSE /\ \E blockNum \in 0..(span - 1) : writeBlock(blockNum + startNum)
                     /\ UNCHANGED fatal
       ELSE pc' = "done" /\ UNCHANGED <<fetched, pending, fatal>>
    /\ UNCHANGED <<chain, flags, startNum, endNum, maxSize, i, reporter,
                   searchVars, sinkVars, timeVars>>

\* One pass of the sequential loop up to the encoder's first Write
SeqLoop ==
    /\ pc = "seq"
    /\ IF SeqContinues(i, endNum)
       THEN writeBlock(i)
       ELSE pc' = "done" /\ UNCHANGED <<fetched, pending>>
    /\ UNCHANGED <<chain, flags, startNum, endNum, maxSize, i, reporter, fatal,
                   searchVars, sinkVars, timeVars>>

\* client.BlockByNumber fails in writeBlock
FetchFails ==
    /\ \/ pc = "sample" /\ SampleContinues(out, maxSize) /\ endNum - startNum > 0
       \/ pc = "seq" /\ SeqContinues(i, endNum)
    /\ Panic("rpc")
    /\ UNCHANGED <<chain, flags, startNum, endNum, maxSize, i, pending, fetched,
                   reporter, searchVars, sinkVars, timeVars>>

\* The encoder's next Write call on out
EncoderWrite ==
    /\ pc = "encode" /\ pending # <<>>
    /\ LET p == pending[1]
           r == Write(out, os, p)
       IN  /\ out' = r.w /\ os' = r.os
           /\ calls' = Append(calls, [len |-> Len(p), file |-> out.file,
                                      rolled |-> r.os.closes > os.closes])
    /\ pending' = Tail(pending)
    /\ UNCHANGED <<pc, chain, flags, startNum, endNum, maxSize, i, fetched, reporter,
                   fatal, searchVars, timeVars>>

\* file.Write fails: Write returns the error, the encoder returns it and
\* assertNoError panics; k of the bytes reached the file, w.n is not advanced
EncoderWriteFails ==
    /\ pc = "encode" /\ pending # <<>>
    /\ \E k \in 0..(Len(pending[1]) - 1) :
          os' = FileWrite(os, out.file, SubSeq(pending[1], 1, k))
    /\ Panic("io")
    /\ UNCHANGED <<chain, flags, startNum, endNum, maxSize, i, pending, fetched,
                   reporter, out, calls, searchVars, timeVars>>

\* reporter.update(i, ..): the percentage and its record; i * 100 / r.n
\* panics when r.n = 0
update(r, x) == [r EXCEPT !.pct = (x * 100) \div r.n]

\* The encoder returned nil: reporter.update, then the loop's next pass
BlockDone ==
    /\ pc = "encode" /\ pending = <<>>
    /\ IF reporter.n = 0
       THEN Panic("divide") /\ UNCHANGED <<reporter, i>>
       ELSE IF maxSize > 0
            THEN /\ reporter' = update(reporter, Written(out))
                 /\ pc' = "sample" /\ UNCHANGED <<i, fatal>>
            ELSE /\ reporter' = update(reporter, Uint(i - startNum))
                 /\ i' = i + 1
                 /\ pc' = "seq" /\ UNCHANGED fatal
    /\ UNCHANGED <<chain, flags, startNum, endNum, maxSize, pending, fetched,
                   searchVars, sinkVars, timeVars>>

Step ==
    \/ ResolveStart \/ ResolveEnd \/ NewWriter
    \/ SampleLoop \/ SeqLoop \/ EncoderWrite \/ BlockDone

Failure == ResolveFails \/ NewWriterFails \/ FetchFails \/ EncoderWriteFails

Next == Step \/ Failure

Spec == Init /\ [][Next]_vars

\* main is a sequential program: while it has a next statement it executes it
LiveSpec == Spec /\ WF_vars(Step)

\* ------------------------------------------- resolution on a growing chain
ChainsUpTo(m) ==
    UNION {{ch \in [1..(h + 1) -> TimeStamps] :
                \A a, b \in 1..(h + 1) : a <= b => ch[a] <= ch[b]} : h \in 0..m}

\* The state of main after flag.Parse, as in Init, on chains up to MaxGrownHead;
\* the resolution reads the two date flags only
ResolveInit ==
    /\ pc = "start"
    /\ chain \in ChainsUpTo(MaxGrownHead)
    /\ flags \in [startDate : DateFlags, endDate : DateFlags,
                  size : {0}, blobSize : {MaxBlobSize}]
    /\ startNum = 0 /\ endNum = 0 /\ maxSize = 0 /\ i = 0
    /\ pending = <<>> /\ fetched = <<>>
    /\ reporter = [n |-> 0, pct |-> 0] /\ fatal = ""
    /\ SinkIdle
    /\ SearchIdle /\ TimeIdle

\* The node receives a block between the two calls of findBlockByDate: the head
\* grows by one, timestamps stay non-decreasing
ChainGrows ==
    /\ pc = "resolveEnd"
    /\ HeadOf(chain) < MaxGrownHead
    /\ \E t \in TimeStamps :
          /\ t >= chain[Len(chain)]
          /\ chain' = Append(chain, t)
    /\ UNCHANGED <<pc, flags, startNum, endNum, maxSize, i, pending, fetched,
                   reporter, fatal, searchVars, sinkVars, timeVars>>

ResolveNext == ResolveStart \/ ChainGrows \/ ResolveEnd \/ ResolveFails

ResolveSpec == ResolveInit /\ [][ResolveNext]_vars

\* ------------------------------------------------- the reporter and its clock
ReportInterval == 30

\* Seconds that may pass between two update calls
Ticks == {0, 20, 40}

\* progressReporter.update at time now: the reporter after the call, and whether
\* the call printed a line
updateAt(r, x, now) ==
    LET newPct == (x * 100) \div r.n
    IN  [r       |-> [update(r, x) EXCEPT !.lastReportTime = now],
         printed |-> newPct # r.pct \/ now - r.lastReportTime > ReportInterval]

\* var reporter progressReporter; reporter.n = ..: the zero value with n set, at
\* a wall-clock time well after the epoch
ReporterInit ==
    /\ \E n \in 1..MaxDenominator :
          reporter = [n |-> n, pct |-> 0, lastReportTime |-> 0]
    /\ clock = 2 * ReportInterval
    /\ log = <<>>
    /\ pc = "idle" /\ chain = <<>> /\ flags = <<>> /\ startNum = 0 /\ endNum = 0
    /\ maxSize = 0 /\ i = 0 /\ pending = <<>> /\ fetched = <<>> /\ fatal = ""
    /\ SearchIdle /\ SinkIdle

\* Time passes and update is called with some numerator
ReporterUpdate ==
    /\ Len(log) < MaxUpdates
    /\ \E d \in Ticks, x \in 0..reporter.n :
          LET u == updateAt(reporter, x, clock + d)
          IN  /\ clock' = clock + d
              /\ reporter' = u.r
              /\ log' = Append(log, [t |-> clock + d, pct |-> u.r.pct,
                                     printed |-> u.printed])
    /\ UNCHANGED <<pc, chain, flags, startNum, endNum, maxSize, i, pending, fetched,
                   fatal, searchVars, sinkVars>>

ReporterNext == ReporterUpdate

ReporterSpec == ReporterInit /\ [][ReporterNext]_vars

\* ------------------------------------------------------------------ claims

\* C1: for a non-decreasing predicate, binarySearchF returns the smallest h in
\* [lower, upper] with f(h) >= 0 (upper if there is none), also when several
\* consecutive heights have f = 0.
C1_SearchReturnsSmallest ==
    (searchPc = "returned" /\ NonDecreasing(increasingF))
        => result = Ceiling(lower0, upper0, increasingF)

\* C2: for a non-decreasing predicate and lower <= upper, the returned h satisfies
\* lower <= h <= upper and either h = upper or f(h) >= 0.
C2_SearchRangeAndSign ==
    (searchPc = "returned" /\ NonDecreasing(increasingF))
        => /\ lower0 <= result /\ result <= upper0
           /\ (result = upper0 \/ increasingF[result] >= 0)

\* C2 witness: a search over a non-empty range that moved both bounds and
\* returned a height strictly inside the range
C2_Witness ==
    /\ searchPc = "returned" /\ NonDecreasing(increasingF)
    /\ lower0 < result /\ result < upper0
    /\ lower > lower0 /\ upper < upper0

Rolls == Cardinality({c \in DOMAIN calls : calls[c].rolled})

\* C4: after any sequence of successful Write calls whose lengths sum to L,
\* Written() = L and blobI equals the number of rolls performed so far (each
\* roll closing one file and opening the next); totalWritten never decreases
\* across a Write.
C4_SinkCounters ==
    /\ [](/\ Written(out) = SumLen(calls)
          /\ out.blobI = Rolls
          /\ out.blobI = os.closes /\ os.opens = os.closes + 1)
    /\ [][out'.n >= out.n]_vars

\* C4 witness: several writes, some of which rolled and some of which did not
C4_Witness ==
    /\ Len(calls) >= 3 /\ Rolls >= 2 /\ Rolls < Len(calls)
    /\ Written(out) >= 3

\* C5: with blobSize > 0, between Write calls blobStart <= totalWritten and
\* totalWritten - blobStart < blobSize; a Write rolls exactly when it makes
\* totalWritten - blobStart >= blobSize.
C5_RollThreshold ==
    /\ [](out.blobSize > 0 =>
            /\ out.blobW0 <= out.n
            /\ out.n - out.blobW0 < out.blobSize)
    /\ [][out.blobSize > 0 =>
            ((os'.closes = os.closes + 1) <=> (out'.n - out.blobW0 >= out.blobSize))]_vars

\* C5 witness: a positive blob size, a roll behind and bytes in the current blob
C5_Witness ==
    /\ out.blobSize > 0 /\ out.blobI >= 1
    /\ out.n > out.blobW0

\* The Write call that closed file k: the last call that went to it
Trigger(k) ==
    LET cs == {c \in DOMAIN calls : calls[c].file = k}
    IN  calls[CHOOSE c \in cs : \A d \in cs : d <= c]

\* C6: every rolled file k < blobI has size >= blobSize and exceeds blobSize by
\* at most len(bytes) - 1 of the Write call that triggered its roll.
C6_RolledFileSize ==
    \A k \in 0..(out.blobI - 1) :
        /\ Len(os.files[k]) >= out.blobSize
        /\ Len(os.files[k]) - out.blobSize <= Trigger(k).len - 1

\* The contents of blob files 0..k, concatenated in index order
RECURSIVE ConcatFiles(_)
ConcatFiles(k) == IF k < 0 THEN <<>> ELSE ConcatFiles(k - 1) \o os.files[k]

\* The encoder's output for the first j fetched blocks, in fetch order
RECURSIVE EncoderOutput(_)
EncoderOutput(j) ==
    IF j = 0 THEN <<>> ELSE EncoderOutput(j - 1) \o Bytes(j, 0, fetched[j].len)

Sequential == pc \in {"seq", "encode", "done"} /\ maxSize = 0

\* C3: in sequential mode the heights startNum..endNum-1 are fetched once each in
\* ascending order, and when the run completes the concatenation of blob files
\* 0..blobI equals the encoder's output for those blocks in that order, whatever
\* the blob size and however the encoder splits a block into Write calls.
C3_SequentialConcatenation ==
    Sequential =>
        /\ \A j \in 1..Len(fetched) : fetched[j].h = startNum + j - 1
        /\ pc = "done" =>
              /\ Len(fetched) = (IF endNum > startNum THEN endNum - startNum ELSE 0)
              /\ DOMAIN os.files = 0..out.blobI
              /\ ConcatFiles(out.blobI) = EncoderOutput(Len(fetched))

\* C3 witness: a completed sequential run over three blocks, one of them written
\* by two calls, with a positive blob size and a roll
C3_Witness ==
    /\ pc = "done" /\ maxSize = 0 /\ out.blobSize > 0
    /\ endNum - startNum >= 3 /\ out.blobI >= 1
    /\ Len(calls) > Len(fetched)

\* The fetched blocks that have bytes in file k
BlocksIn(k) == {os.files[k][b][1] : b \in 1..Len(os.files[k])}

\* C7: all the bytes the encoder writes for one block land in the same blob
\* file; a roll occurs only between two blocks.
\* (Stated for the valid blob sizes, blobSize > 0.)
C7_BlockInOneFile ==
    out.blobSize > 0 =>
        \A k1, k2 \in DOMAIN os.files : k1 # k2 => BlocksIn(k1) \cap BlocksIn(k2) = {}

\* C8: in sampled mode over a non-empty range, with every block encoding to at
\* least one byte, the run halts unless an RPC or IO error ends it, and when it
\* completes Written() >= maxSize.
C8_SampledTermination ==
    /\ []((pc = "done" /\ maxSize > 0) => Written(out) >= maxSize)
    /\ (pc = "sample" /\ startNum < endNum)
          ~> (pc = "done" \/ (pc = "panic" /\ fatal \in {"rpc", "io"}))

\* C8 witness: a completed sampled run that needed two blocks
C8_Witness ==
    /\ pc = "done" /\ maxSize > 0 /\ startNum < endNum
    /\ Len(fetched) >= 2 /\ Written(out) >= maxSize

\* C9: in sampled mode with startNum = endNum the loop ends at once: the random
\* source is not asked for a value in an empty range, no block is fetched and
\* there is no fatal error. (Stated for the valid blob sizes, blobSize > 0.)
C9_DegenerateSpanGuard ==
    (out.blobSize > 0 /\ maxSize > 0 /\ startNum = endNum /\ pc \in {"done", "panic"})
        => (pc = "done" /\ fetched = <<>>)

\* C10: when startNum > endNum the run ends in a fatal error with a non-zero
\* exit code in either mode, and no block is fetched or written. (Stated for the
\* valid blob sizes, blobSize > 0.)
C10_InvertedRangeRejected ==
    (flags.blobSize > 0 /\ startNum > endNum /\ pc \notin {"start", "resolveEnd"})
        => /\ pc # "done"
           /\ fetched = <<>> /\ Written(out) = 0
\* C11: whenever a run ends after the sink was constructed, by completing the
\* harvest or by a panic, the open blob file has been closed. (Stated for the
\* valid blob sizes, blobSize > 0.)
C11_BlobClosedAtExit ==
    (flags.blobSize > 0 /\ pc \in {"done", "panic"} /\ os.opens > 0)
        => os.closes = os.opens

\* C12: a run with blobsize = 0 is rejected as a fatal error and never performs
\* a write or a roll with blobSize = 0.
C12_ZeroBlobSizeRejected ==
    flags.blobSize = 0 => (pc # "done" /\ calls = <<>> /\ out.blobI = 0)

\* C13: a run that fails on a date string or on an RPC error during date
\* resolution has created no blob file, and in every run the first file is
\* created only after both startNum and endNum have been resolved.
C13_DateFailuresPrecedeFiles ==
    /\ [](pc \in {"start", "resolveEnd"} => os = NoFiles)
    /\ []((pc = "panic" /\ fatal = "date") => os = NoFiles)
    /\ [][(pc \in {"start", "resolveEnd"} /\ pc' = "panic") => os' = NoFiles]_vars
    /\ [][(os = NoFiles /\ os' # NoFiles) => pc = "create"]_vars

\* C13 witness: the start date resolved, the end date was rejected, no file exists
C13_Witness ==
    /\ pc = "panic" /\ fatal = "date"
    /\ flags.startDate.form = "date" /\ flags.endDate.form = "bad"
    /\ os = NoFiles

\* C15: a Write of zero bytes leaves totalWritten, blobStart, blobIndex and the
\* open file unchanged and never rolls, in every reachable sink state.
C15_ZeroWriteIsNoOp ==
    [][(Len(calls') = Len(calls) + 1 /\ calls'[Len(calls')].len = 0)
          => (out' = out /\ os' = os)]_vars

\* C16: file 0 exists from construction on; in every state exactly one blob file
\* is open, it is the file with index blobI, and a file exists for every index
\* in 0..blobI.
C16_BlobFileSet ==
    /\ 0 \in DOMAIN os.files
    /\ os.opens - os.closes = 1
    /\ out.file = out.blobI
    /\ DOMAIN os.files = 0..out.blobI

\* C16 witness: two rolls behind, the third file open and holding bytes
C16_Witness ==
    /\ out.blobI = 2 /\ os.closes = 2 /\ Len(os.files[2]) > 0

\* C17: in sampled mode every sampled height lies in [startNum, endNum), no block
\* is fetched once Written() >= maxSize, and at termination Written() is below
\* maxSize plus the size of the last block; with blocks of one constant size L
\* exactly ceil(maxSize / L) blocks are written.
C17_SampledStopsAtBudget ==
    /\ []((maxSize > 0 /\ pc \in {"sample", "encode", "done"}) =>
            /\ \A j \in 1..Len(fetched) :
                  startNum <= fetched[j].h /\ fetched[j].h < endNum
            /\ pc = "done" =>
                  /\ Len(fetched) >= 1
                  /\ Written(out) < maxSize + fetched[Len(fetched)].len
                  /\ \A L \in 1..MaxBlockLen :
                        (\A j \in 1..Len(fetched) : fetched[j].len = L)
                            => /\ Len(fetched) = (maxSize + L - 1) \div L
                               /\ Written(out) \in maxSize..(maxSize + L - 1))
    /\ [][(maxSize > 0 /\ fetched' # fetched) => Written(out) < maxSize]_vars

\* C17 witness: a completed sampled run whose last block overshot the budget
C17_Witness ==
    /\ pc = "done" /\ maxSize > 0
    /\ Len(fetched) >= 2 /\ Written(out) > maxSize

\* C18: for any predicate, monotone or not, every loop iteration of
\* binarySearchF returns or strictly decreases upper - lower with lower <= upper
\* kept, only heights in [lower, upper) are probed, and the search returns.
C18_SearchTerminates ==
    /\ [](lower <= upper)
    /\ [](probes \subseteq lower0..(upper0 - 1))
    /\ [][searchPc = "loop" =>
            (searchPc' = "returned" \/ upper' - lower' < upper - lower)]_vars
    /\ <>(searchPc = "returned")

\* C18 witness: a search on a predicate that is not monotone returned after
\* probing two heights
C18_Witness ==
    /\ searchPc = "returned" /\ ~NonDecreasing(increasingF)
    /\ Cardinality(probes) >= 2

\* C19: no run evaluates i * 100 / n with n = 0: reporter.update is never
\* called while n = 0 (sequential mode over an empty range), so the reporter
\* reports nothing and the run does not fail on it.
C19_ReporterNeverDividesByZero ==
    /\ fatal # "divide"
    /\ pc = "encode" => reporter.n # 0
    /\ reporter.n = 0 => (fetched = <<>> /\ reporter.pct = 0)

\* C19 witness: a sequential run over an empty range completed with n = 0
C19_Witness ==
    /\ pc = "done" /\ flags.size = 0 /\ startNum = endNum
    /\ reporter.n = 0 /\ os.opens = 1

\* C20: on a chain with non-decreasing timestamps whose head may only grow
\* between the two resolutions, a start instant <= the end instant resolves to
\* 0 <= startNum <= endNum <= head.
C20_ResolvedRangeOrdered ==
    (pc = "create" /\ flags.startDate.t <= flags.endDate.t)
        => /\ 0 <= startNum /\ startNum <= endNum
           /\ endNum <= HeadOf(chain)

\* The last line printed before update call k: its time and percent (the zero
\* value of the reporter when none was printed)
LastPrinted(k) ==
    LET ps == {j \in 1..(k - 1) : log[j].printed}
    IN  IF ps = {} THEN [t |-> 0, pct |-> 0]
        ELSE log[CHOOSE j \in ps : \A m \in ps : m <= j]

\* C14: with n > 0, an update prints a line exactly when its integer percent
\* differs from the last reported percent or more than 30 seconds have passed
\* since the last printed line.
C14_ProgressEmissionRule ==
    \A k \in 1..Len(log) :
        log[k].printed <=>
            \/ log[k].pct # LastPrinted(k).pct
            \/ log[k].t - LastPrinted(k).t > ReportInterval

====
